---- MODULE Spec2Model ----
(***************************************************************************)
(* The request router of aws-smithy-http-server (routing/mod.rs): a table  *)
(* of (route, request_spec) pairs sorted once by specificity, the dispatch *)
(* loop of Router::call over it, and Router::layer.  RequestSpec::rank and *)
(* RequestSpec::matches live in routing/request_spec.rs; they are modelled *)
(* from the design document (sections 4.1 to 4.4).  Beside the router:     *)
(* parse_extended_error of aws-inlineable (s3_errors.rs), and of the       *)
(* canary runner (run.rs) use_correct_revision and the run of a canary:    *)
(* run, run_canary and create_lambda_fn.                                   *)
(***************************************************************************)
EXTENDS Integers, Sequences, FiniteSets, TLC

VARIABLES registered, routes, constructed, called, req, response,
          layers, calls, s3, revision, canary

vars == <<registered, routes, constructed, called, req, response,
          layers, calls, s3, revision, canary>>

\* The router's table, and what the last Router::call was given and answered.
tableVars == <<registered, routes, constructed>>
lastCallVars == <<called, req, response>>
\* The state of the two tools, which no operation of the router touches.
toolVars == <<s3, revision, canary>>

(* ---------------------------- bounds ----------------------------------- *)

\* Largest number of (service, request_spec) pairs handed to the constructor.
MaxRoutes == 3
\* The same for the runs over signatures of every rank.
MaxRankRoutes == 2
\* Longest generated path pattern / request path of the path-matching runs.
MaxPathLen == 3
MaxReqLen == 4
\* Most constraints of a generated signature / pairs of a generated query string.
MaxQuerySegments == 2
MaxQueryPairs == 2
\* Number of calls of Router::call that may be in progress at once.
MaxCalls == 2
\* Number of times Router::layer is applied to a router.
MaxLayers == 1
\* Most headers of a generated response / bytes of a generated header value.
MaxHeaders == 2
MaxHeaderLen == 2
\* Most entries of a generated list of pinned smithy-rs versions.
MaxPinned == 2

(* ------------------------- program constants --------------------------- *)

NOT_FOUND == 404
\* s3_errors.rs: the key of the extended request id among an error's extras.
EXTENDED_REQUEST_ID == "s3_extended_request_id"
\* run.rs, create_lambda_fn: while !matches!(state, State::Active) && attempts < 20
MAX_ATTEMPTS == 20
METHOD_NOT_ALLOWED == 405

(* ---------------------------- data model ------------------------------- *)

\* request_spec::PathSegment
Literal(text) == <<"Literal", text>>
Label == <<"Label">>
Greedy == <<"Greedy">>

\* request_spec::QuerySegment
Key(k) == <<"Key", k>>
KeyValue(k, v) == <<"KeyValue", k, v>>

\* RequestSpec::from_parts(method, path_segments, query_segments)
RequestSpec(method, path_segments, query_segments) ==
    [method |-> method, path_segments |-> path_segments, query_segments |-> query_segments]

\* tests::req(method, uri), the uri already split: the path into its non-empty
\* segments, the query into its pairs, <<key, value>> or <<key>> (no value).
Request(method, path, query) ==
    [method |-> method, path |-> path, query |-> query]

SeqsUpTo(S, n) == UNION {[1..k -> S] : k \in 0..n}

CountKind(path_segments, kind) ==
    Cardinality({i \in DOMAIN path_segments : path_segments[i][1] = kind})

(* ------------------- RequestSpec::rank (section 4.1) ------------------- *)

\* The specificity of a signature: its number of query constraints, then of
\* Literal, Greedy and Label segments.
Rank(request_spec) ==
    [query   |-> Len(request_spec.query_segments),
     literal |-> CountKind(request_spec.path_segments, "Literal"),
     greedy  |-> CountKind(request_spec.path_segments, "Greedy"),
     label   |-> CountKind(request_spec.path_segments, "Label")]

\* The order of ranks: r1 is less specific than r2.  More query constraints,
\* then more literals, then fewer greedy segments, then fewer labels rank higher.
RankLess(r1, r2) ==
    \/ r1.query < r2.query
    \/ r1.query = r2.query /\ r1.literal < r2.literal
    \/ r1.query = r2.query /\ r1.literal = r2.literal /\ r1.greedy > r2.greedy
    \/ /\ r1.query = r2.query /\ r1.literal = r2.literal /\ r1.greedy = r2.greedy
       /\ r1.label > r2.label

(* ----------------- RequestSpec::matches (4.2 to 4.4) ------------------- *)

SegmentMatches(segment_spec, segment) ==
    IF segment_spec[1] = "Literal" THEN segment_spec[2] = segment ELSE TRUE

\* Position-by-position comparison of a pattern without Greedy.
FixedMatches(path_segments, segments) ==
    /\ Len(segments) = Len(path_segments)
    /\ \A i \in DOMAIN path_segments : SegmentMatches(path_segments[i], segments[i])

GreedyIndex(path_segments) ==
    CHOOSE g \in DOMAIN path_segments : path_segments[g] = Greedy

\* Section 4.2: without Greedy the lengths are equal and every position
\* matches; with Greedy at g the prefix is matched against the head of the
\* request and the suffix against its tail, Greedy taking what lies between.
PathMatches(path_segments, segments) ==
    IF CountKind(path_segments, "Greedy") = 0
    THEN FixedMatches(path_segments, segments)
    ELSE LET g == GreedyIndex(path_segments)
             n == Len(path_segments)
             m == Len(segments)
         IN  /\ m >= n
             /\ FixedMatches(SubSeq(path_segments, 1, g - 1), SubSeq(segments, 1, g - 1))
             /\ FixedMatches(SubSeq(path_segments, g + 1, n),
                             SubSeq(segments, m - (n - g) + 1, m))

\* Section 4.3: one constraint against the pairs of the request's query.
QuerySegmentMatches(query_segment, query) ==
    IF query_segment[1] = "Key"
    THEN \E i \in DOMAIN query : query[i][1] = query_segment[2]
    ELSE \E i \in DOMAIN query :
            /\ Len(query[i]) = 2
            /\ query[i][1] = query_segment[2]
            /\ query[i][2] = query_segment[3]

QueryMatches(query_segments, query) ==
    \A i \in DOMAIN query_segments : QuerySegmentMatches(query_segments[i], query)

\* Section 4.4: request_spec::Match, one of Yes, MethodNotAllowed, No.
Matches(request_spec, request) ==
    IF ~PathMatches(request_spec.path_segments, request.path) THEN "No"
    ELSE IF ~QueryMatches(request_spec.query_segments, request.query) THEN "No"
    ELSE IF request_spec.method # request.method THEN "MethodNotAllowed"
    ELSE "Yes"

(* ------------------ Router::from_box_clone_service_iter ---------------- *)

\* Route::from_box_clone_service(svc): the route keeps the service it wraps.
RouteFromBoxCloneService(svc) == svc

\* The key without Reverse: the ranks in their own, ascending order.
RankLessNoReverse(entry1, entry2) ==
    RankLess(Rank(entry1.request_spec), Rank(entry2.request_spec))

\* The sort key of an entry, std::cmp::Reverse(request_spec.rank()), and the
\* order of two such keys: Reverse turns the order of the ranks around.
ReverseRankLess(entry1, entry2) ==
    RankLess(Rank(entry2.request_spec), Rank(entry1.request_spec))

\* sort_unstable_by_key in place of sort_by_key: an entry goes before the
\* entries already placed whose key equals its own.
RECURSIVE InsertBeforeEqual(_, _)
InsertBeforeEqual(sorted, entry) ==
    IF sorted = <<>> THEN <<entry>>
    ELSE IF ~ReverseRankLess(Head(sorted), entry) THEN <<entry>> \o sorted
    ELSE <<Head(sorted)>> \o InsertBeforeEqual(Tail(sorted), entry)

\* Vec::sort_by_key is a stable sort: an entry goes behind every entry
\* already placed whose key is not greater than its own.
RECURSIVE InsertByKey(_, _)
InsertByKey(sorted, entry) ==
    IF sorted = <<>> THEN <<entry>>
    ELSE IF ReverseRankLess(entry, Head(sorted)) THEN <<entry>> \o sorted
    ELSE <<Head(sorted)>> \o InsertByKey(Tail(sorted), entry)

\* The constructor without its sort: the routes as they were registered.
SortOmitted(v) == v

RECURSIVE SortByKey(_)
SortByKey(v) ==
    IF v = <<>> THEN <<>>
    ELSE InsertByKey(SortByKey(SubSeq(v, 1, Len(v) - 1)), v[Len(v)])

\* The routes of the router built from the pairs (svc, request_spec).
BuildRoutes(pairs) ==
    SortByKey([i \in DOMAIN pairs |->
                  [route |-> RouteFromBoxCloneService(pairs[i].svc),
                   request_spec |-> pairs[i].request_spec]])

(* ----------------------------- Router::call ---------------------------- *)

Dispatched(route, evaluated) ==
    [kind |-> "route", route |-> route, status |-> 0, evaluated |-> evaluated]

StatusResponse(status_code, evaluated) ==
    [kind |-> "status", route |-> 0, status |-> status_code, evaluated |-> evaluated]

\* The loop without its early return: the last full match wins.
RECURSIVE ScanLastMatch(_, _, _, _)
ScanLastMatch(rs, request, i, method_not_allowed) ==
    LET later == {k \in i..Len(rs) : Matches(rs[k].request_spec, request) = "Yes"}
        mismatch == \E k \in i..Len(rs) :
                        Matches(rs[k].request_spec, request) = "MethodNotAllowed"
    IN  IF later # {}
        THEN Dispatched(rs[CHOOSE k \in later : \A l \in later : l <= k].route, Len(rs))
        ELSE StatusResponse(IF method_not_allowed \/ mismatch
                            THEN METHOD_NOT_ALLOWED ELSE NOT_FOUND, Len(rs))

\* The loop with method_not_allowed assigned from every verdict, so that a
\* later No verdict clears it.
RECURSIVE ScanLastVerdict(_, _, _, _)
ScanLastVerdict(rs, request, i, method_not_allowed) ==
    IF i > Len(rs)
    THEN StatusResponse(IF method_not_allowed THEN METHOD_NOT_ALLOWED ELSE NOT_FOUND,
                        Len(rs))
    ELSE LET verdict == Matches(rs[i].request_spec, request)
         IN  IF verdict = "Yes" THEN Dispatched(rs[i].route, i)
             ELSE ScanLastVerdict(rs, request, i + 1, verdict = "MethodNotAllowed")

\* The loop answering 405 at the first MethodNotAllowed verdict.
RECURSIVE ScanStopsAtMismatch(_, _, _, _)
ScanStopsAtMismatch(rs, request, i, method_not_allowed) ==
    IF i > Len(rs)
    THEN StatusResponse(IF method_not_allowed THEN METHOD_NOT_ALLOWED ELSE NOT_FOUND,
                        Len(rs))
    ELSE LET verdict == Matches(rs[i].request_spec, request)
         IN  IF verdict = "Yes" THEN Dispatched(rs[i].route, i)
             ELSE IF verdict = "MethodNotAllowed"
                  THEN StatusResponse(METHOD_NOT_ALLOWED, i)
             ELSE ScanStopsAtMismatch(rs, request, i + 1, method_not_allowed)

\* The loop with the No arm setting method_not_allowed as well.
RECURSIVE ScanNoSetsFlag(_, _, _, _)
ScanNoSetsFlag(rs, request, i, method_not_allowed) ==
    IF i > Len(rs)
    THEN StatusResponse(IF method_not_allowed THEN METHOD_NOT_ALLOWED ELSE NOT_FOUND,
                        Len(rs))
    ELSE LET verdict == Matches(rs[i].request_spec, request)
         IN  IF verdict = "Yes" THEN Dispatched(rs[i].route, i)
             ELSE ScanNoSetsFlag(rs, request, i + 1, TRUE)

\* The loop dispatching to an entry whose method differs.
RECURSIVE ScanMismatchDispatches(_, _, _, _)
ScanMismatchDispatches(rs, request, i, method_not_allowed) ==
    IF i > Len(rs)
    THEN StatusResponse(IF method_not_allowed THEN METHOD_NOT_ALLOWED ELSE NOT_FOUND,
                        Len(rs))
    ELSE LET verdict == Matches(rs[i].request_spec, request)
         IN  IF verdict # "No" THEN Dispatched(rs[i].route, i)
             ELSE ScanMismatchDispatches(rs, request, i + 1, method_not_allowed)

\* The loop with the two status codes the wrong way around.
RECURSIVE ScanStatusSwapped(_, _, _, _)
ScanStatusSwapped(rs, request, i, method_not_allowed) ==
    IF i > Len(rs)
    THEN StatusResponse(IF method_not_allowed THEN NOT_FOUND ELSE METHOD_NOT_ALLOWED,
                        Len(rs))
    ELSE LET verdict == Matches(rs[i].request_spec, request)
         IN  IF verdict = "Yes" THEN Dispatched(rs[i].route, i)
             ELSE IF verdict = "MethodNotAllowed"
                  THEN ScanStatusSwapped(rs, request, i + 1, TRUE)
             ELSE ScanStatusSwapped(rs, request, i + 1, method_not_allowed)

\* The loop over self.routes from entry i on; evaluated counts the entries
\* whose request_spec.matches(&req) has been called.
RECURSIVE Scan(_, _, _, _)
Scan(rs, request, i, method_not_allowed) ==
    IF i > Len(rs)
    THEN StatusResponse(IF method_not_allowed THEN METHOD_NOT_ALLOWED ELSE NOT_FOUND,
                        Len(rs))
    ELSE LET verdict == Matches(rs[i].request_spec, request)
         IN  IF verdict = "Yes" THEN Dispatched(rs[i].route, i)
             ELSE IF verdict = "MethodNotAllowed" THEN Scan(rs, request, i + 1, TRUE)
             ELSE Scan(rs, request, i + 1, method_not_allowed)

\* The call whose flag starts out set.
RouterCallFlagSet(rs, request) == Scan(rs, request, 1, TRUE)

RouterCall(rs, request) == Scan(rs, request, 1, FALSE)

(* ------------------- s3_errors.rs: parse_extended_error ---------------- *)

\* Option<T>.
None == <<>>
Some(value) == <<value>>

\* smithy_types::Error as the tests build it: message, request id, and extras
\* as a set of <<key, value>> pairs with one pair at most for a key.
Error(message, request_id, extras) ==
    [message |-> message, request_id |-> request_id, extras |-> extras]

\* Error::extra(key)
Extra(error, key) ==
    IF \E pair \in error.extras : pair[1] = key
    THEN Some((CHOOSE pair \in error.extras : pair[1] = key)[2])
    ELSE None

\* ErrorExt::extended_request_id
extended_request_id(error) == Extra(error, EXTENDED_REQUEST_ID)

\* Builder::custom(key, value): the extras with key set to value.
Custom(builder, key, value) ==
    [builder EXCEPT !.extras = {pair \in builder.extras : pair[1] # key}
                                  \cup {<<key, value>>}]

\* HeaderMap::get(name): the first value under the name, if any.  A response
\* is the sequence of its <<name, value>> headers, a value a sequence of bytes.
HeadersGet(headers, name) ==
    IF \E i \in DOMAIN headers : headers[i][1] = name
    THEN Some(headers[CHOOSE i \in DOMAIN headers :
                        /\ headers[i][1] = name
                        /\ \A j \in 1..(i - 1) : headers[j][1] # name][2])
    ELSE None

\* HeaderValue::to_str().ok(): the value as a string when every byte of it is
\* visible ASCII (32 to 126, or tab), nothing otherwise.
ToStrOk(header_value) ==
    IF \A i \in DOMAIN header_value :
          \/ header_value[i] >= 32 /\ header_value[i] < 127
          \/ header_value[i] = 9
    THEN Some(header_value)
    ELSE None

\* The function taking the header's bytes as they are.
parse_extended_error_any_bytes(error, http_response) ==
    LET host_id == HeadersGet(http_response, "x-amz-id-2")
    IN  IF host_id # None THEN Custom(error, EXTENDED_REQUEST_ID, host_id[1]) ELSE error

\* parse_extended_error: builder from the error, the header read as a string,
\* the extra set when there is one, the error built again.
parse_extended_error(error, http_response) ==
    LET builder == error
        header == HeadersGet(http_response, "x-amz-id-2")
        host_id == IF header = None THEN None ELSE ToStrOk(header[1])
    IN  IF host_id # None
        THEN Custom(builder, EXTENDED_REQUEST_ID, host_id[1])
        ELSE builder

(* --------------------- run.rs: use_correct_revision -------------------- *)

\* semver::Version of numeric components, <<major, minor, patch>>, in the
\* order of semver: by major, then minor, then patch.
VersionLess(a, b) ==
    \/ a[1] < b[1]
    \/ a[1] = b[1] /\ a[2] < b[2]
    \/ a[1] = b[1] /\ a[2] = b[2] /\ a[3] < b[3]

\* Version::parse of the dot-separated numbers of a version string: a version
\* when there are exactly three of them, an error otherwise.
VersionParse(text) ==
    IF Len(text) = 3 THEN Some(<<text[1], text[2], text[3]>>) ELSE None

\* pinned.sort() on (Version, commit hash) pairs of distinct versions.
RECURSIVE PinnedInsert(_, _)
PinnedInsert(sorted, pin) ==
    IF sorted = <<>> THEN <<pin>>
    ELSE IF VersionLess(pin[1], sorted[1][1]) THEN <<pin>> \o sorted
    ELSE <<sorted[1]>> \o PinnedInsert(Tail(sorted), pin)

\* The list left as it was written.
PinnedUnsorted(pinned) == pinned

RECURSIVE PinnedSort(_)
PinnedSort(pinned) ==
    IF pinned = <<>> THEN <<>>
    ELSE PinnedInsert(PinnedSort(SubSeq(pinned, 1, Len(pinned) - 1)), pinned[Len(pinned)])

\* run.rs lines 40-48: the list the program ships.
PINNED_SMITHY_RS_VERSIONS ==
    PinnedSort(<< <<(<<0, 6, 0>>), "d48c234796a16d518ca9e1dda5c7a1da4904318c">> >>)

\* .iter().find(|(v, _)| v >= &sdk_version): the first entry, in list order,
\* of a version not below the requested one.
FindPinned(pinned, sdk_version) ==
    IF \E i \in DOMAIN pinned : ~VersionLess(pinned[i][1], sdk_version)
    THEN Some(pinned[CHOOSE i \in DOMAIN pinned :
                        /\ ~VersionLess(pinned[i][1], sdk_version)
                        /\ \A j \in 1..(i - 1) : VersionLess(pinned[j][1], sdk_version)])
    ELSE None

\* No git reset was run.
NoReset == ""

\* use_correct_revision for a version string and a pinned list, in a checkout
\* where the smithy-rs root is found or not and where git reset succeeds or
\* not: the commit git reset --hard was run with, and how the function ended
\* (the expect on an invalid version string panics).
use_correct_revision(text, pinned, root_found, reset_ok) ==
    LET sdk_version == VersionParse(text)
    IN  IF sdk_version = None THEN [reset |-> NoReset, result |-> "panic"]
        ELSE LET found == FindPinned(pinned, sdk_version[1])
             IN  IF found = None THEN [reset |-> NoReset, result |-> "Ok"]
                 ELSE IF ~root_found THEN [reset |-> NoReset, result |-> "Err"]
                 ELSE [reset |-> found[1][2],
                       result |-> IF reset_ok THEN "Ok" ELSE "Err"]

(* ------------- run.rs: run, run_canary, create_lambda_fn --------------- *)

\* The steps of run_canary before the Lambda function is created, in order.
EarlySteps ==
    <<"git_root", "set_current_dir", "use_correct_revision", "generate_cargo_toml",
      "build_bundle", "upload_bundle">>

\* The canary runner before run is called.  pc is the call about to be made;
\* exists tells whether the Lambda function exists in the account; the counts
\* and results record what was called and what it returned (polls: the polls
\* made; active_seen: one of them reported Active; polls_after_active: the
\* polls made after that).  The elapsed()
\* of a moment just taken is in range, and every poll that succeeds reports a
\* state.
NoCanary ==
    [pc |-> "idle", step |-> 0, exists |-> FALSE, attempts |-> 0, state |-> "Pending",
     polls |-> 0, active_seen |-> FALSE, polls_after_active |-> 0,
     create_result |-> "none", invocations |-> 0,
     invoke_result |-> "none", invoke_time |-> 0, deletions |-> 0,
     delete_result |-> "none", canary_result |-> "none", canary_error |-> "",
     canary_value |-> 0, metrics |-> <<>>, emissions |-> 0, emit_result |-> "none",
     run_result |-> "none",
     run_error |-> ""]

\* run_canary returns Err from the call named, or Ok(invoke_time); run goes on
\* to its metrics.
ReturnErr(c, error) ==
    [c EXCEPT !.pc = "put_metric_data", !.canary_result = "Err", !.canary_error = error]
ReturnOk(c, invoke_time) ==
    [c EXCEPT !.pc = "put_metric_data", !.canary_result = "Ok", !.canary_value = invoke_time]

\* One of the early steps, each ended by `?`.
EarlyStep(c, ok) ==
    IF ~ok THEN ReturnErr(c, EarlySteps[c.step])
    ELSE IF c.step < Len(EarlySteps) THEN [c EXCEPT !.step = c.step + 1]
    ELSE [c EXCEPT !.pc = "create_function"]

\* create_lambda_fn, lines 272-298: create_function().send()?, then
\* attempts = 0 and state = Pending.
CreateFunction(c, ok) ==
    IF ~ok THEN ReturnErr([c EXCEPT !.create_result = "Err"], "create_function")
    ELSE [c EXCEPT !.pc = "poll", !.exists = TRUE, !.attempts = 0, !.state = "Pending"]

\* The loop condition that lets one more turn through.
KeepsPollingOneMore(c) == c.state # "Active" /\ c.attempts <= MAX_ATTEMPTS

\* The condition of the while loop of create_lambda_fn.
KeepsPolling(c) == c.state # "Active" /\ c.attempts < MAX_ATTEMPTS

\* One turn of the loop, lines 303-311: get_function_configuration().send()?
\* fails, or reports the state outcome.
Poll(c, outcome) ==
    LET polled == [c EXCEPT !.polls = c.polls + 1,
                            !.polls_after_active =
                                c.polls_after_active + (IF c.active_seen THEN 1 ELSE 0),
                            !.active_seen = c.active_seen \/ outcome = "Active"]
    IN  IF outcome = "fail"
        THEN ReturnErr([polled EXCEPT !.create_result = "Err"],
                       "get_function_configuration")
        ELSE [polled EXCEPT !.state = outcome, !.attempts = c.attempts + 1]

\* After the loop, lines 313-316: bail on a state other than Active, else Ok,
\* on which run_canary goes on to invoke.
AfterPolling(c) ==
    IF c.state # "Active" THEN ReturnErr([c EXCEPT !.create_result = "Err"], "timeout")
    ELSE [c EXCEPT !.pc = "invoke", !.create_result = "Ok"]

\* The invocation ended by `?`.
InvokeReturnsEarly(c, ok, invoke_time) ==
    LET invoked == [c EXCEPT !.invocations = c.invocations + 1,
                             !.invoke_result = IF ok THEN "Ok" ELSE "Err",
                             !.invoke_time = invoke_time]
    IN  IF ok THEN [invoked EXCEPT !.pc = "delete"] ELSE ReturnErr(invoked, "invoke")

\* run_canary, lines 174-176: the result of invoke_lambda is kept, not returned.
Invoke(c, ok, invoke_time) ==
    [c EXCEPT !.pc = "delete", !.invocations = c.invocations + 1,
              !.invoke_result = IF ok THEN "Ok" ELSE "Err", !.invoke_time = invoke_time]

\* run_canary, lines 178-183: delete_lambda_fn(..)?, then
\* invoke_result.map(|_| invoke_time).
Delete(c, ok) ==
    LET deleted == [c EXCEPT !.deletions = c.deletions + 1,
                             !.delete_result = IF ok THEN "Ok" ELSE "Err",
                             !.exists = IF ok THEN FALSE ELSE c.exists]
    IN  IF ~ok THEN ReturnErr(deleted, "delete_function")
        ELSE IF c.invoke_result = "Ok" THEN ReturnOk(deleted, c.invoke_time)
        ELSE ReturnErr(deleted, "invoke")

\* run, lines 77-99: the metrics built from the result of run_canary.
Metrics(c, total_time) ==
    << <<"canary-success", IF c.canary_result = "Ok" THEN 1 ELSE 0>>,
       <<"canary-failure", IF c.canary_result = "Ok" THEN 0 ELSE 1>>,
       <<"canary-total-time", total_time>> >>
    \o (IF c.canary_result = "Ok" THEN << <<"canary-invoke-time", c.canary_value>> >>
        ELSE <<>>)

\* The send whose failure is dropped.
PutMetricDataIgnoresFailure(c, total_time, ok) ==
    [c EXCEPT !.pc = "done", !.metrics = Metrics(c, total_time),
              !.emissions = c.emissions + 1,
              !.emit_result = IF ok THEN "Ok" ELSE "Err",
              !.run_result = c.canary_result, !.run_error = c.canary_error]

\* run, lines 101-123: put_metric_data().send()?, then result.map(|_| ()).
PutMetricData(c, total_time, ok) ==
    LET sent == [c EXCEPT !.pc = "done", !.metrics = Metrics(c, total_time),
                          !.emissions = c.emissions + 1,
                          !.emit_result = IF ok THEN "Ok" ELSE "Err"]
    IN  IF ~ok THEN [sent EXCEPT !.run_result = "Err", !.run_error = "put_metric_data"]
        ELSE [sent EXCEPT !.run_result = c.canary_result, !.run_error = c.canary_error]

(* ------------------------------- inputs -------------------------------- *)

\* The pairs handed to the constructor: the service of the i-th pair is i.
PairsOver(specs, n) ==
    {[i \in DOMAIN s |-> [svc |-> i, request_spec |-> s[i]]] : s \in SeqsUpTo(specs, n)}

Methods == {"GET", "POST"}

\* Dispatch runs: signatures that overlap, differ in method, and need a query key.
PathPool == {<<Literal("b"), Greedy>>, <<Literal("b"), Label>>}
QueryPool == {<<>>, <<Key("q")>>}
SpecPool == {RequestSpec(m, p, q) : m \in Methods, p \in PathPool, q \in QueryPool}
RequestPool ==
    {Request(m, p, q) : m \in Methods,
                        p \in {<<"b", "foo">>, <<"foo">>, <<"b", "foo", "bar">>},
                        q \in {<<>>, <<(<<"q", "baz">>)>>}}

\* Rank runs: one method, path shapes of every specificity, 0 to 2 query constraints.
RankPathPool ==
    {<<Literal("b"), Literal("b")>>, <<Literal("b"), Label>>, <<Literal("b"), Greedy>>,
     <<Label, Label>>, <<Greedy>>, <<Label, Greedy>>}
RankQueryPool == {<<>>, <<Key("q")>>, <<Key("q"), KeyValue("foo", "bar")>>}
RankSpecPool == {RequestSpec("GET", p, q) : p \in RankPathPool, q \in RankQueryPool}
RankRequestPool ==
    {Request("GET", p, q) :
        p \in {<<"b", "b">>, <<"b", "foo">>, <<"foo", "b">>, <<"b", "foo", "bar">>},
        q \in {<<>>, <<(<<"q", "baz">>)>>, <<(<<"q", "baz">>), (<<"foo", "bar">>)>>}}

\* Path runs: one GET route without query constraints, its path any pattern of
\* up to MaxPathLen segments with at most one Greedy, or a path of
\* tests::simple_routing; the requests are GET requests for any path of up to
\* MaxReqLen segments, or a uri of the hits and misses of that test.
PathA == <<Literal("a"), Label, Label>>
PathMiddleGreedy == <<Literal("mg"), Greedy, Literal("z")>>
PathSegmentPool == {Literal("a"), Literal("z"), Label, Greedy}
PathPatternPool ==
    {p \in SeqsUpTo(PathSegmentPool, MaxPathLen) : CountKind(p, "Greedy") <= 1}
        \cup {PathA, PathMiddleGreedy}
PathTables ==
    {<<[svc |-> 1, request_spec |-> RequestSpec("GET", p, <<>>)]>> : p \in PathPatternPool}
TestUriPaths ==
    {<<"a", "b", "c">>, <<"mg", "a", "z">>, <<"a">>, <<"a", "b">>, <<"mg">>,
     <<"mg", "q">>, <<"mg", "z">>, <<"mg", "a", "b", "z", "c">>}
PathRequestPool ==
    {Request("GET", p, <<>>) : p \in SeqsUpTo({"a", "z"}, MaxReqLen) \cup TestUriPaths}
        \cup {Request("GET", <<"mg", "a", "b", "c", "d", "z">>, <<(<<"abc", "def">>)>>)}

\* Query runs: one DELETE route on the empty path, its constraints any sequence
\* of up to MaxQuerySegments of those of tests::simple_routing; the requests are
\* DELETE / with any query string of up to MaxQueryPairs pairs, or a query
\* string of the hits and misses of that test.
QuerySegmentPool == {KeyValue("foo", "bar"), Key("baz"), Key("foo")}
QueryTables ==
    {<<[svc |-> 1, request_spec |-> RequestSpec("DELETE", <<>>, q)]>> :
        q \in SeqsUpTo(QuerySegmentPool, MaxQuerySegments)}
QueryPairPool ==
    {<<"foo", "bar">>, <<"foo">>, <<"foo", "">>, <<"baz", "quux">>, <<"baz">>,
     <<"abc", "def">>}
TestQueries ==
    {<<(<<"foo", "bar">>), (<<"baz", "quux">>)>>,
     <<(<<"foo", "bar">>), (<<"baz">>)>>,
     <<(<<"foo", "bar">>), (<<"baz", "">>)>>,
     <<(<<"foo", "bar">>), (<<"baz", "quux">>), (<<"baz", "grault">>)>>,
     <<(<<"foo", "bar">>)>>,
     <<(<<"baz", "quux">>)>>}
QueryRequestPool ==
    {Request("DELETE", <<>>, q) :
        q \in SeqsUpTo(QueryPairPool, MaxQueryPairs) \cup TestQueries}

\* Verdict runs: one route, DELETE or GET, on the empty path or on /a, without
\* constraints or with those of the Delete spec of tests::simple_routing; the
\* requests vary the method, the path and the query independently.
VerdictTables ==
    {<<[svc |-> 1, request_spec |-> RequestSpec(m, p, q)]>> :
        m \in {"DELETE", "GET"},
        p \in {<<>>, <<Literal("a")>>},
        q \in {<<>>, <<KeyValue("foo", "bar"), Key("baz")>>}}
VerdictRequestPool ==
    {Request(m, p, q) :
        m \in {"GET", "POST", "DELETE"},
        p \in {<<>>, <<"a">>},
        q \in {<<>>, <<(<<"foo", "bar">>)>>, <<(<<"foo", "bar">>), (<<"baz">>)>>}}

\* Runs of calls in progress together: tables of up to MaxRankRoutes entries
\* over three signatures that overlap on /b/foo, and requests that end in a
\* dispatch, in a 405 and in a 404.
CallsSpecPool ==
    {RequestSpec("GET", <<Literal("b"), Label>>, <<>>),
     RequestSpec("POST", <<Literal("b"), Greedy>>, <<>>),
     RequestSpec("GET", <<Literal("b"), Greedy>>, <<Key("q")>>)}
CallsRequestPool ==
    {Request("GET", <<"b", "foo">>, <<>>),
     Request("POST", <<"b", "foo">>, <<(<<"q", "baz">>)>>),
     Request("GET", <<"foo">>, <<>>)}

\* Build runs: collections of up to MaxRankRoutes signatures, some of them with
\* two Greedy segments, which the constructor takes like any other.  Section
\* 4.2 defines the match of a pattern with at most one Greedy; PathMatches
\* splits a pattern with more at one of them.
BuildPathPool ==
    {<<Literal("b"), Greedy>>, <<Literal("b"), Label>>, <<Greedy, Greedy>>,
     <<Greedy, Literal("z"), Greedy>>}
BuildSpecPool == {RequestSpec("GET", p, <<>>) : p \in BuildPathPool}
BuildInputs == PairsOver(BuildSpecPool, MaxRankRoutes)

\* Layer runs: the tables and requests of the runs of calls, and two layers.
LayerPool == {"trace", "auth"}

\* Runs of parse_extended_error: errors with and without message, request id
\* and an extra of another key; responses of up to MaxHeaders headers, each the
\* extended or the plain request id, the value up to MaxHeaderLen bytes of "A"
\* and 0xFF.
BytePool == {65, 255}
HeaderValuePool == SeqsUpTo(BytePool, MaxHeaderLen) \ {<<>>}
HeaderPool ==
    {<<name, value>> : name \in {"x-amz-id-2", "x-amz-request-id"},
                       value \in HeaderValuePool}
ResponsePool == SeqsUpTo(HeaderPool, MaxHeaders)
ErrorPool ==
    {Error(message, request_id, extras) :
        message \in {None, Some("123")},
        request_id \in {None, Some("456")},
        extras \in {{}, {<<"other", <<65>>>>}}}

\* Runs of use_correct_revision: pinned lists written in any order, of up to
\* MaxPinned entries of distinct versions, the shipped entry among them, and
\* version strings below, at, between and above the pinned versions, one of
\* them not a version.
PinPool ==
    {<<(<<0, 5, 0>>), "c050">>,
     <<(<<0, 6, 0>>), "d48c234796a16d518ca9e1dda5c7a1da4904318c">>,
     <<(<<1, 0, 0>>), "c100">>}
PinnedPool ==
    {pinned \in SeqsUpTo(PinPool, MaxPinned) :
        \A i, j \in DOMAIN pinned : i # j => pinned[i][1] # pinned[j][1]}
SdkVersionPool ==
    {<<0, 4, 9>>, <<0, 5, 0>>, <<0, 5, 9>>, <<0, 6, 0>>, <<0, 6, 1>>, <<1, 0, 0>>,
     <<1, 0, 1>>, <<0, 6>>}

\* Runs of the canary: what a poll reports (or "fail"), and elapsed seconds.
PollPool == {"Pending", "Active", "Failed", "fail"}
DurationPool == {1, 2}

\* parse_extended_error not yet applied; use_correct_revision not yet run.
NoError == Error(None, None, {})
NoParse == [parsed |-> FALSE, error |-> NoError, headers |-> <<>>, result |-> NoError]
NoRevision ==
    [ran |-> FALSE, sdk_version |-> <<>>, written |-> <<>>, pinned |-> <<>>,
     root_found |-> FALSE, reset_ok |-> FALSE, reset |-> NoReset, result |-> "none"]

NoRequest == Request("", <<>>, <<>>)
NoResponse == [kind |-> "none", route |-> 0, status |-> 0, evaluated |-> 0]

\* A call of Router::call that has not begun.
IdleCall ==
    [pc |-> "idle", req |-> NoRequest, i |-> 1, method_not_allowed |-> FALSE,
     visited |-> <<>>, response |-> NoResponse]

(* ----------------------------- Router::layer --------------------------- *)

\* Layer::layer(&layer, route): the route inside the layer's middleware.
LayerRoute(layer, route) == <<layer, route>>

\* The entries layered and collected back to front.
LayerRoutesReversed(layer, rs) ==
    [i \in 1..Len(rs) |->
        [rs[Len(rs) + 1 - i] EXCEPT !.route = LayerRoute(layer, rs[Len(rs) + 1 - i].route)]]

\* self.routes.into_iter().map(|(route, request_spec)| ...).collect()
LayerRoutes(layer, rs) ==
    [i \in 1..Len(rs) |-> [rs[i] EXCEPT !.route = LayerRoute(layer, rs[i].route)]]

(* -------------------- Router::call, one iteration at a time ------------ *)

\* The turn that goes on to the same entry again after a verdict of No.
ScanStepNoAdvance(rs, call) ==
    IF call.i > Len(rs)
    THEN [call EXCEPT !.pc = "done",
                      !.response = StatusResponse(
                          IF call.method_not_allowed THEN METHOD_NOT_ALLOWED
                          ELSE NOT_FOUND, Len(rs))]
    ELSE LET verdict == Matches(rs[call.i].request_spec, call.req)
             seen == [call EXCEPT !.visited = Append(call.visited, call.i)]
         IN  IF verdict = "Yes"
             THEN [seen EXCEPT !.pc = "done",
                               !.response = Dispatched(rs[call.i].route, call.i)]
             ELSE IF verdict = "MethodNotAllowed"
             THEN [seen EXCEPT !.i = call.i + 1, !.method_not_allowed = TRUE]
             ELSE IF Len(call.visited) >= Len(rs) THEN call
             ELSE seen

\* One turn of the loop of Router::call for a call in progress: past the last
\* entry the status response is built; otherwise the entry at i is evaluated,
\* and the call returns the route, sets its flag and goes on, or goes on.
ScanStep(rs, call) ==
    IF call.i > Len(rs)
    THEN [call EXCEPT !.pc = "done",
                      !.response = StatusResponse(
                          IF call.method_not_allowed THEN METHOD_NOT_ALLOWED
                          ELSE NOT_FOUND, Len(rs))]
    ELSE LET verdict == Matches(rs[call.i].request_spec, call.req)
             seen == [call EXCEPT !.visited = Append(call.visited, call.i)]
         IN  IF verdict = "Yes"
             THEN [seen EXCEPT !.pc = "done",
                               !.response = Dispatched(rs[call.i].route, call.i)]
             ELSE IF verdict = "MethodNotAllowed"
             THEN [seen EXCEPT !.i = call.i + 1, !.method_not_allowed = TRUE]
             ELSE [seen EXCEPT !.i = call.i + 1]

(* ------------------------------- actions ------------------------------- *)

\* Router::default(): no routes.
Init ==
    /\ registered = <<>>
    /\ routes = <<>>
    /\ constructed = FALSE
    /\ called = FALSE
    /\ req = NoRequest
    /\ response = NoResponse
    /\ layers = <<>>
    /\ calls = [c \in 1..MaxCalls |-> IdleCall]
    /\ s3 = NoParse
    /\ revision = NoRevision
    /\ canary = NoCanary

FromBoxCloneServiceIter(inputs) ==
    /\ ~constructed
    /\ ~called
    /\ \E pairs \in inputs :
          /\ registered' = pairs
          /\ routes' = BuildRoutes(pairs)
    /\ constructed' = TRUE
    /\ layers' = <<>>
    /\ UNCHANGED <<called, req, response>>
    /\ UNCHANGED <<calls, toolVars>>

Call(requests) ==
    /\ \E request \in requests :
          /\ req' = request
          /\ response' = RouterCall(routes, request)
    /\ called' = TRUE
    /\ UNCHANGED <<registered, routes, constructed>>
    /\ UNCHANGED <<layers, calls, toolVars>>

Next ==
    \/ FromBoxCloneServiceIter(PairsOver(SpecPool, MaxRoutes))
    \/ Call(RequestPool)

Spec == Init /\ [][Next]_vars

NextRank ==
    \/ FromBoxCloneServiceIter(PairsOver(RankSpecPool, MaxRankRoutes))
    \/ Call(RankRequestPool)

SpecRank == Init /\ [][NextRank]_vars

NextPath ==
    \/ FromBoxCloneServiceIter(PathTables)
    \/ Call(PathRequestPool)

SpecPath == Init /\ [][NextPath]_vars

NextQuery ==
    \/ FromBoxCloneServiceIter(QueryTables)
    \/ Call(QueryRequestPool)

SpecQuery == Init /\ [][NextQuery]_vars

NextVerdict ==
    \/ FromBoxCloneServiceIter(VerdictTables)
    \/ Call(VerdictRequestPool)

SpecVerdict == Init /\ [][NextVerdict]_vars

\* let mut method_not_allowed = false, for a call c on a built router.
CallBegin(c, requests) ==
    /\ constructed
    /\ calls[c].pc = "idle"
    /\ \E request \in requests :
          calls' = [calls EXCEPT ![c] = [IdleCall EXCEPT !.pc = "loop", !.req = request]]
    /\ UNCHANGED <<tableVars, lastCallVars, layers, toolVars>>

\* A turn of a dispatch that moves the matched entry to the head of the table.
CallStepMovesToFront(c) ==
    /\ calls[c].pc = "loop"
    /\ calls' = [calls EXCEPT ![c] = ScanStep(routes, calls[c])]
    /\ routes' =
          IF calls[c].i <= Len(routes)
             /\ Matches(routes[calls[c].i].request_spec, calls[c].req) = "Yes"
          THEN <<routes[calls[c].i]>> \o SubSeq(routes, 1, calls[c].i - 1)
                   \o SubSeq(routes, calls[c].i + 1, Len(routes))
          ELSE routes
    /\ UNCHANGED <<registered, constructed, lastCallVars, layers, toolVars>>

\* One turn of the loop of call c; the table is only read (&self.routes).
CallStep(c) ==
    /\ calls[c].pc = "loop"
    /\ calls' = [calls EXCEPT ![c] = ScanStep(routes, calls[c])]
    /\ UNCHANGED <<tableVars, lastCallVars, layers, toolVars>>

NextCalls ==
    \/ FromBoxCloneServiceIter(PairsOver(CallsSpecPool, MaxRankRoutes))
    \/ \E c \in 1..MaxCalls : CallBegin(c, CallsRequestPool)
    \/ \E c \in 1..MaxCalls : CallStep(c)

SpecCalls == Init /\ [][NextCalls]_vars

\* A call that is running keeps taking its turns.
SpecCallsFair == SpecCalls /\ \A c \in 1..MaxCalls : WF_vars(CallStep(c))

NextBuild ==
    \/ FromBoxCloneServiceIter(BuildInputs)
    \/ Call(RequestPool)

SpecBuild == Init /\ [][NextBuild]_vars

\* Router::layer consumes the router and returns one over the layered routes,
\* which has not been called yet.
RouterLayer(layer_pool) ==
    /\ Len(layers) < MaxLayers
    /\ \E layer \in layer_pool :
          /\ routes' = LayerRoutes(layer, routes)
          /\ layers' = Append(layers, layer)
    /\ called' = FALSE
    /\ req' = NoRequest
    /\ response' = NoResponse
    /\ UNCHANGED <<registered, constructed, calls, toolVars>>

NextLayer ==
    \/ FromBoxCloneServiceIter(PairsOver(CallsSpecPool, MaxRankRoutes))
    \/ RouterLayer(LayerPool)
    \/ Call(CallsRequestPool)

SpecLayer == Init /\ [][NextLayer]_vars

\* One application of parse_extended_error to an error and a response.
ParseExtendedError(errors, responses) ==
    /\ ~s3.parsed
    /\ \E error \in errors, headers \in responses :
          s3' = [parsed |-> TRUE, error |-> error, headers |-> headers,
                 result |-> parse_extended_error(error, headers)]
    /\ UNCHANGED <<tableVars, lastCallVars, layers, calls, revision, canary>>

NextS3 == ParseExtendedError(ErrorPool, ResponsePool)

SpecS3 == Init /\ [][NextS3]_vars

\* One run of use_correct_revision against a pinned list sorted at start-up.
UseCorrectRevision(pinned_lists, versions) ==
    /\ ~revision.ran
    /\ \E written \in pinned_lists, text \in versions, root_found, reset_ok \in BOOLEAN :
          LET pinned == PinnedSort(written)
              outcome == use_correct_revision(text, pinned, root_found, reset_ok)
          IN  revision' = [ran |-> TRUE, sdk_version |-> text, written |-> written,
                           pinned |-> pinned, root_found |-> root_found,
                           reset_ok |-> reset_ok, reset |-> outcome.reset,
                           result |-> outcome.result]
    /\ UNCHANGED <<tableVars, lastCallVars, layers, calls, s3, canary>>

NextRevision == UseCorrectRevision(PinnedPool, SdkVersionPool)

SpecRevision == Init /\ [][NextRevision]_vars

\* run: run_canary is entered.
RunBegin ==
    /\ canary.pc = "idle"
    /\ canary' = [canary EXCEPT !.pc = "early", !.step = 1]
    /\ UNCHANGED <<tableVars, lastCallVars, layers, calls, s3, revision>>

RunEarlyStep ==
    /\ canary.pc = "early"
    /\ \E ok \in BOOLEAN : canary' = EarlyStep(canary, ok)
    /\ UNCHANGED <<tableVars, lastCallVars, layers, calls, s3, revision>>

RunCreateFunction ==
    /\ canary.pc = "create_function"
    /\ \E ok \in BOOLEAN : canary' = CreateFunction(canary, ok)
    /\ UNCHANGED <<tableVars, lastCallVars, layers, calls, s3, revision>>

RunPoll(outcomes) ==
    /\ canary.pc = "poll"
    /\ KeepsPolling(canary)
    /\ \E outcome \in outcomes : canary' = Poll(canary, outcome)
    /\ UNCHANGED <<tableVars, lastCallVars, layers, calls, s3, revision>>

RunAfterPolling ==
    /\ canary.pc = "poll"
    /\ ~KeepsPolling(canary)
    /\ canary' = AfterPolling(canary)
    /\ UNCHANGED <<tableVars, lastCallVars, layers, calls, s3, revision>>

RunInvoke(durations) ==
    /\ canary.pc = "invoke"
    /\ \E ok \in BOOLEAN, invoke_time \in durations :
          canary' = Invoke(canary, ok, invoke_time)
    /\ UNCHANGED <<tableVars, lastCallVars, layers, calls, s3, revision>>

RunDelete ==
    /\ canary.pc = "delete"
    /\ \E ok \in BOOLEAN : canary' = Delete(canary, ok)
    /\ UNCHANGED <<tableVars, lastCallVars, layers, calls, s3, revision>>

RunPutMetricData(durations) ==
    /\ canary.pc = "put_metric_data"
    /\ \E ok \in BOOLEAN, total_time \in durations :
          canary' = PutMetricData(canary, total_time, ok)
    /\ UNCHANGED <<tableVars, lastCallVars, layers, calls, s3, revision>>

NextCanary ==
    \/ RunBegin
    \/ RunEarlyStep
    \/ RunCreateFunction
    \/ RunPoll(PollPool)
    \/ RunAfterPolling
    \/ RunInvoke(DurationPool)
    \/ RunDelete
    \/ RunPutMetricData(DurationPool)

SpecCanary == Init /\ [][NextCanary]_vars

(* ------------------------------- claims -------------------------------- *)

FullMatches(rs, request) ==
    {i \in DOMAIN rs : Matches(rs[i].request_spec, request) = "Yes"}

\* The entries whose path and query match the request, whatever their method.
PathQueryMatches(rs, request) ==
    {i \in DOMAIN rs :
        /\ PathMatches(rs[i].request_spec.path_segments, request.path)
        /\ QueryMatches(rs[i].request_spec.query_segments, request.query)}

\* C1: when Router::call dispatches to a handler, the handler is that of the
\* first entry of the sorted table that fully matches the request: no entry
\* before it is a full match and no entry after it has been evaluated.
C1_FirstFullMatchDispatched ==
    (called /\ response.kind = "route") =>
        \E i \in DOMAIN routes :
            /\ routes[i].route = response.route
            /\ i \in FullMatches(routes, req)
            /\ \A j \in 1..(i - 1) : j \notin FullMatches(routes, req)
            /\ response.evaluated = i

\* A dispatch while a later entry of the table fully matches the request too.
C1_Witness ==
    /\ called
    /\ response.kind = "route"
    /\ \E j \in FullMatches(routes, req) : j > response.evaluated

\* C2: when no entry fully matches, the answer is 405 exactly when some entry
\* matches path and query with another method, and 404 exactly when no entry
\* matches path and query; entries that match neither do not change the answer.
C2_NotFoundOrMethodNotAllowed ==
    (called /\ FullMatches(routes, req) = {}) =>
        /\ response.kind = "status"
        /\ response.status \in {NOT_FOUND, METHOD_NOT_ALLOWED}
        /\ (response.status = METHOD_NOT_ALLOWED) <=>
              (\E i \in PathQueryMatches(routes, req) :
                    routes[i].request_spec.method # req.method)
        /\ (response.status = NOT_FOUND) <=> (PathQueryMatches(routes, req) = {})
        /\ LET related == SelectSeq(routes,
                              LAMBDA e : Matches(e.request_spec, req) # "No")
           IN  RouterCall(related, req).status = response.status

\* A 405 from a table whose method-mismatched entry is followed by an entry
\* that has nothing to do with the request.
C2_Witness ==
    /\ called
    /\ response.kind = "status"
    /\ response.status = METHOD_NOT_ALLOWED
    /\ \E i, j \in DOMAIN routes :
          /\ i < j
          /\ Matches(routes[i].request_spec, req) = "MethodNotAllowed"
          /\ Matches(routes[j].request_spec, req) = "No"

\* C3: a MethodNotAllowed verdict does not end the scan: whenever some entry
\* of the table fully matches the request, the call dispatches to a handler.
C3_MethodMismatchDoesNotEndScan ==
    (called /\ FullMatches(routes, req) # {}) => response.kind = "route"

\* A dispatch reached after a higher-ranked entry gave MethodNotAllowed.
C3_Witness ==
    /\ called
    /\ response.kind = "route"
    /\ \E j \in 1..(response.evaluated - 1) :
          Matches(routes[j].request_spec, req) = "MethodNotAllowed"

\* The position at which an entry of the table was registered.
RegisteredIndex(entry) ==
    CHOOSE k \in DOMAIN registered :
        /\ registered[k].svc = entry.route
        /\ registered[k].request_spec = entry.request_spec

\* C4: the built table holds exactly the registered pairs, in non-increasing
\* rank, entries of equal rank in the order of their registration.
C4_SortedStablePermutation ==
    constructed =>
        /\ Len(routes) = Len(registered)
        /\ \A k \in DOMAIN registered :
              Cardinality({i \in DOMAIN routes :
                  /\ routes[i].route = registered[k].svc
                  /\ routes[i].request_spec = registered[k].request_spec}) = 1
        /\ \A i, j \in DOMAIN routes :
              i < j => ~RankLess(Rank(routes[i].request_spec), Rank(routes[j].request_spec))
        /\ \A i, j \in DOMAIN routes :
              (i < j /\ Rank(routes[i].request_spec) = Rank(routes[j].request_spec))
                  => RegisteredIndex(routes[i]) < RegisteredIndex(routes[j])

\* A build that moved an entry forward past two entries of one rank, which
\* kept their order.
C4_Witness ==
    /\ constructed
    /\ \E i, j, k \in DOMAIN routes :
          /\ i < j /\ j < k
          /\ RegisteredIndex(routes[i]) > RegisteredIndex(routes[j])
          /\ Rank(routes[j].request_spec) = Rank(routes[k].request_spec)
          /\ routes[j].request_spec # routes[k].request_spec

QueryCount(entry) == Len(entry.request_spec.query_segments)

\* tests::basic_pattern_conflict_avoidance: B1 and B2, and the request for B2.
B1 == RequestSpec("GET", <<Literal("b"), Greedy>>, <<>>)
B2 == RequestSpec("GET", <<Literal("b"), Greedy>>, <<Key("q")>>)
RequestForB2 == Request("GET", <<"b", "foo">>, <<(<<"q", "baz">>)>>)

\* C5: a signature with more query constraints ranks strictly above one with
\* fewer, whatever the path shapes, so it stands earlier in the table and a
\* request matching both is never dispatched to the one with fewer; B1 and B2
\* registered in either order send GET /b/foo?q=baz to B2.
C5_MoreQueryConstraintsFirst ==
    /\ constructed =>
          \A i, j \in DOMAIN routes :
              QueryCount(routes[i]) > QueryCount(routes[j]) =>
                  /\ RankLess(Rank(routes[j].request_spec), Rank(routes[i].request_spec))
                  /\ i < j
    /\ called =>
          \A i, j \in FullMatches(routes, req) :
              QueryCount(routes[i]) > QueryCount(routes[j]) =>
                  /\ response.kind = "route"
                  /\ response.route # routes[j].route
    /\ (/\ called
        /\ req = RequestForB2
        /\ Len(registered) = 2
        /\ {registered[1].request_spec, registered[2].request_spec} = {B1, B2}) =>
          /\ response.kind = "route"
          /\ \E k \in DOMAIN registered :
                registered[k].request_spec = B2 /\ response.route = registered[k].svc

\* B1 registered before B2, and GET /b/foo?q=baz dispatched to B2.
C5_Witness ==
    /\ called
    /\ req = RequestForB2
    /\ Len(registered) = 2
    /\ registered[1].request_spec = B1
    /\ registered[2].request_spec = B2
    /\ response.route = registered[2].svc

\* Among equal numbers of query constraints: more Literal segments, then fewer
\* Greedy segments, then fewer Label segments.
PathOrderBefore(s1, s2) ==
    LET lit(s) == CountKind(s.path_segments, "Literal")
        gre(s) == CountKind(s.path_segments, "Greedy")
        lab(s) == CountKind(s.path_segments, "Label")
    IN  \/ lit(s1) > lit(s2)
        \/ lit(s1) = lit(s2) /\ gre(s1) < gre(s2)
        \/ lit(s1) = lit(s2) /\ gre(s1) = gre(s2) /\ lab(s1) < lab(s2)

\* C6: with equal numbers of query constraints, rank orders signatures by more
\* Literal segments, then fewer Greedy, then fewer Label; when two of them both
\* fully match the request, the later one is never dispatched, and the earlier
\* one is when no other entry matches.
C6_PathSpecificityOrder ==
    /\ constructed =>
          \A i, j \in DOMAIN routes :
              (/\ QueryCount(routes[i]) = QueryCount(routes[j])
               /\ PathOrderBefore(routes[i].request_spec, routes[j].request_spec)) =>
                  /\ RankLess(Rank(routes[j].request_spec), Rank(routes[i].request_spec))
                  /\ i < j
    /\ called =>
          \A i, j \in FullMatches(routes, req) :
              (/\ QueryCount(routes[i]) = QueryCount(routes[j])
               /\ PathOrderBefore(routes[i].request_spec, routes[j].request_spec)) =>
                  /\ response.kind = "route"
                  /\ response.route # routes[j].route
                  /\ FullMatches(routes, req) = {i, j} => response.route = routes[i].route

\* Two full matches with as many query constraints, of which the one registered
\* second is the more specific path and is dispatched.
C6_Witness ==
    /\ called
    /\ response.kind = "route"
    /\ \E i, j \in FullMatches(routes, req) :
          /\ QueryCount(routes[i]) = QueryCount(routes[j])
          /\ PathOrderBefore(routes[i].request_spec, routes[j].request_spec)
          /\ RegisteredIndex(routes[i]) > RegisteredIndex(routes[j])
          /\ response.route = routes[i].route

\* The orders in which the pairs of s can be registered.
RECURSIVE RegistrationOrders(_)
RegistrationOrders(s) ==
    IF s = <<>> THEN {<<>>}
    ELSE UNION {{<<s[i]>> \o rest :
                    rest \in RegistrationOrders(SubSeq(s, 1, i - 1) \o SubSeq(s, i + 1, Len(s)))} :
                i \in DOMAIN s}

Decision(r) == [kind |-> r.kind, route |-> r.route, status |-> r.status]

\* The rank of the entry that a response was dispatched to.
DispatchedRank(rs, r) ==
    Rank((CHOOSE e \in {rs[i] : i \in DOMAIN rs} : e.route = r.route).request_spec)

RankTie(rs, request) ==
    \E i, j \in FullMatches(rs, request) :
        i # j /\ Rank(rs[i].request_spec) = Rank(rs[j].request_spec)

NonOverlapping(pairs, requests) ==
    \A request \in requests : \A i, j \in DOMAIN pairs :
        (/\ i # j
         /\ Matches(pairs[i].request_spec, request) = "Yes"
         /\ Matches(pairs[j].request_spec, request) = "Yes") => FALSE

\* C8: for pairwise non-overlapping signatures, the order of registration does
\* not change the decision for a request.
C8_NonOverlappingOrderIndependent ==
    (constructed /\ called /\ NonOverlapping(registered, RequestPool)) =>
        \A p \in RegistrationOrders(registered) :
            Decision(RouterCall(BuildRoutes(p), req)) = Decision(response)

\* A dispatch from non-overlapping signatures that the sort reordered, after
\* the entry moved to the front answered MethodNotAllowed.
C8_Witness ==
    /\ constructed /\ called
    /\ NonOverlapping(registered, RequestPool)
    /\ response.kind = "route"
    /\ \E j \in 1..(response.evaluated - 1) :
          /\ Matches(routes[j].request_spec, req) = "MethodNotAllowed"
          /\ RegisteredIndex(routes[j]) > RegisteredIndex(routes[response.evaluated])

\* The only route of a table of one entry: its path pattern.
OnlyPath == routes[1].request_spec.path_segments

\* A Literal of the pattern equals the request segment; a Label accepts any.
SegmentAccepted(segment_spec, segment) ==
    segment_spec[1] = "Literal" => segment_spec[2] = segment

\* C9: a pattern with one Greedy at position g matches a request path exactly
\* when the request has at least as many segments as the pattern, its first
\* g - 1 segments match the pattern before the Greedy and its last segments
\* match the pattern after it, so that Greedy takes one segment or more;
\* [mg, Greedy, z] matches /mg/a/z and /mg/a/b/c/d/z, and none of /mg/z, /mg,
\* /mg/q and /mg/a/b/z/c, which get 404.
C9_GreedyPathMatch ==
    (constructed /\ called /\ Len(routes) = 1 /\ CountKind(OnlyPath, "Greedy") = 1) =>
        LET n == Len(OnlyPath)
            m == Len(req.path)
            g == CHOOSE k \in 1..n : OnlyPath[k][1] = "Greedy"
            fits == /\ m >= n
                    /\ \A k \in 1..(g - 1) : SegmentAccepted(OnlyPath[k], req.path[k])
                    /\ \A k \in (g + 1)..n :
                          SegmentAccepted(OnlyPath[k], req.path[m - n + k])
        IN  /\ (response.kind = "route") <=> fits
            /\ response.kind = "route" => m - (n - 1) >= 1
            /\ response.kind # "route" => response.status = NOT_FOUND
            /\ (/\ OnlyPath = PathMiddleGreedy
                /\ req.path \in {<<"mg", "a", "z">>, <<"mg", "a", "b", "c", "d", "z">>})
                  => response.kind = "route"
            /\ (/\ OnlyPath = PathMiddleGreedy
                /\ req.path \in {<<"mg", "z">>, <<"mg">>, <<"mg", "q">>,
                                 <<"mg", "a", "b", "z", "c">>})
                  => response.status = NOT_FOUND

\* [mg, Greedy, z] dispatched for /mg/a/b/c/d/z, the Greedy taking four segments.
C9_Witness ==
    /\ constructed /\ called
    /\ Len(routes) = 1
    /\ OnlyPath = PathMiddleGreedy
    /\ req.path = <<"mg", "a", "b", "c", "d", "z">>
    /\ response.kind = "route"

\* C10: a pattern without Greedy matches a request path exactly when the request
\* has as many segments as the pattern and every Literal equals the segment at
\* its position, a Label accepting any segment; [a, Label, Label] matches
\* /a/b/c, and neither /a nor /a/b, which get 404.
C10_FixedPathMatch ==
    (constructed /\ called /\ Len(routes) = 1 /\ CountKind(OnlyPath, "Greedy") = 0) =>
        LET fits == /\ Len(req.path) = Len(OnlyPath)
                    /\ \A k \in 1..Len(OnlyPath) :
                          k <= Len(req.path) => SegmentAccepted(OnlyPath[k], req.path[k])
        IN  /\ (response.kind = "route") <=> fits
            /\ Len(req.path) # Len(OnlyPath) => response.status = NOT_FOUND
            /\ response.kind # "route" => response.status = NOT_FOUND
            /\ (OnlyPath = PathA /\ req.path = <<"a", "b", "c">>) => response.kind = "route"
            /\ (OnlyPath = PathA /\ req.path \in {<<"a">>, <<"a", "b">>})
                  => response.status = NOT_FOUND

\* [a, Label, Label] dispatched for /a/b/c.
C10_Witness ==
    /\ constructed /\ called
    /\ Len(routes) = 1
    /\ OnlyPath = PathA
    /\ req.path = <<"a", "b", "c">>
    /\ response.kind = "route"
\* The only route of a table of one entry: its query constraints.
OnlyQuery == routes[1].request_spec.query_segments

\* Key(k): some pair of the query has key k, whatever its value, empty or none.
\* KeyValue(k, v): some pair has key k and the value v.
ConstraintHolds(constraint, query) ==
    \/ /\ constraint[1] = "Key"
       /\ \E i \in 1..Len(query) : query[i][1] = constraint[2]
    \/ /\ constraint[1] = "KeyValue"
       /\ \E i \in 1..Len(query) : query[i] = <<constraint[2], constraint[3]>>

\* C11: the query constraints of a signature are satisfied exactly when every
\* one of them holds, Key(k) by a pair with key k and any, an empty or no value,
\* KeyValue(k, v) by a pair with key k and value v; a further pair on the
\* request, a repeated key or a key no constraint names, leaves a satisfied
\* request satisfied.
C11_QueryConstraints ==
    (constructed /\ called /\ Len(routes) = 1) =>
        LET satisfied == \A i \in 1..Len(OnlyQuery) : ConstraintHolds(OnlyQuery[i], req.query)
        IN  /\ (response.kind = "route") <=> satisfied
            /\ response.kind # "route" => response.status = NOT_FOUND
            /\ response.kind = "route" =>
                  \A pair \in QueryPairPool \cup {<<"baz", "grault">>} :
                      \A at \in 0..Len(req.query) :
                          RouterCall(routes,
                              Request(req.method, req.path,
                                      SubSeq(req.query, 1, at) \o <<pair>>
                                          \o SubSeq(req.query, at + 1, Len(req.query)))).kind
                              = "route"
            /\ (/\ OnlyQuery = <<KeyValue("foo", "bar"), Key("baz")>>
                /\ req.query \in {<<(<<"foo", "bar">>), (<<"baz", "quux">>)>>,
                                  <<(<<"foo", "bar">>), (<<"baz">>)>>,
                                  <<(<<"foo", "bar">>), (<<"baz", "">>)>>,
                                  <<(<<"foo", "bar">>), (<<"baz", "quux">>),
                                    (<<"baz", "grault">>)>>})
                  => response.kind = "route"
            /\ (/\ OnlyQuery = <<KeyValue("foo", "bar"), Key("baz")>>
                /\ req.query \in {<<(<<"foo", "bar">>)>>, <<(<<"baz", "quux">>)>>})
                  => response.status = NOT_FOUND

\* foo=bar and key baz satisfied by /?foo=bar&baz=quux&baz=grault, baz repeated.
C11_Witness ==
    /\ constructed /\ called
    /\ Len(routes) = 1
    /\ OnlyQuery = <<KeyValue("foo", "bar"), Key("baz")>>
    /\ req.query = <<(<<"foo", "bar">>), (<<"baz", "quux">>), (<<"baz", "grault">>)>>
    /\ response.kind = "route"
\* The only route of a table of one entry: its whole signature.
OnlySpec == routes[1].request_spec

\* The paths of VerdictTables against those of VerdictRequestPool: the empty
\* pattern takes the root path, the literal "a" takes /a.
VerdictPathOk ==
    \/ OnlySpec.path_segments = <<>> /\ req.path = <<>>
    \/ OnlySpec.path_segments = <<Literal("a")>> /\ req.path = <<"a">>

VerdictQueryOk ==
    \A i \in 1..Len(OnlySpec.query_segments) :
        ConstraintHolds(OnlySpec.query_segments[i], req.query)

\* C12: an entry whose path or query does not match gives no match, whatever
\* the method (404 when it is the only entry, never 405); it gives a method
\* mismatch (405) exactly when path and query match and the method differs, and
\* a full match (dispatch) exactly when all three match. With DELETE on the
\* empty path requiring foo=bar and key baz, GET /, POST / and DELETE /?foo=bar
\* all end in 404.
C12_Verdict ==
    (constructed /\ called /\ Len(routes) = 1) =>
        /\ (~VerdictPathOk \/ ~VerdictQueryOk) =>
              response.kind = "status" /\ response.status = NOT_FOUND
        /\ (response.kind = "status" /\ response.status = METHOD_NOT_ALLOWED)
              <=> (VerdictPathOk /\ VerdictQueryOk /\ OnlySpec.method # req.method)
        /\ (response.kind = "route")
              <=> (VerdictPathOk /\ VerdictQueryOk /\ OnlySpec.method = req.method)
        /\ (/\ OnlySpec = RequestSpec("DELETE", <<>>, <<KeyValue("foo", "bar"), Key("baz")>>)
            /\ req \in {Request("GET", <<>>, <<>>), Request("POST", <<>>, <<>>),
                        Request("DELETE", <<>>, <<(<<"foo", "bar">>)>>)})
              => response.kind = "status" /\ response.status = NOT_FOUND

\* GET / against DELETE on the empty path requiring foo=bar and key baz: the
\* path matches, the method differs, the query fails, and the answer is 404.
C12_Witness ==
    /\ constructed /\ called
    /\ Len(routes) = 1
    /\ OnlySpec = RequestSpec("DELETE", <<>>, <<KeyValue("foo", "bar"), Key("baz")>>)
    /\ req = Request("GET", <<>>, <<>>)
    /\ response.status = NOT_FOUND
\* C13: dispatch never changes the built table: however many calls run and
\* however their turns interleave, the table is the sequence of entries the
\* build produced, and a finished call has the outcome the same request has
\* when it is dispatched alone against that table.
C13_DispatchLeavesTable ==
    constructed =>
        /\ routes = BuildRoutes(registered)
        /\ \A c \in 1..MaxCalls :
              calls[c].pc = "done" =>
                  calls[c].response = RouterCall(BuildRoutes(registered), calls[c].req)

\* Two calls finished, one dispatched and one answered by status, the turns of
\* the second taken while the first was still in its loop.
C13_Witness ==
    /\ constructed
    /\ Len(routes) >= 2
    /\ \E c, d \in 1..MaxCalls :
          /\ c # d
          /\ calls[c].pc = "loop" /\ calls[c].visited # <<>>
          /\ calls[d].pc = "done" /\ calls[d].response.kind = "route"
          /\ calls[d].response.evaluated >= 2
\* The entries a call has evaluated are 1, 2, ... in table order, none twice.
VisitedInOrder(call) ==
    /\ Len(call.visited) <= Len(routes)
    /\ \A k \in 1..Len(call.visited) : call.visited[k] = k

\* The three ways a call ends, of which a finished call shows exactly one.
EndsDispatched(call) ==
    call.response.kind = "route" /\ call.response.status = 0
EndsMethodNotAllowed(call) ==
    call.response.kind = "status" /\ call.response.status = METHOD_NOT_ALLOWED
EndsNotFound(call) ==
    call.response.kind = "status" /\ call.response.status = NOT_FOUND

CallEndsWell(call) ==
    /\ VisitedInOrder(call)
    /\ call.pc = "done" =>
          /\ EndsDispatched(call) \/ EndsMethodNotAllowed(call) \/ EndsNotFound(call)
          /\ ~(EndsDispatched(call) /\ EndsMethodNotAllowed(call))
          /\ ~(EndsDispatched(call) /\ EndsNotFound(call))
          /\ ~(EndsMethodNotAllowed(call) /\ EndsNotFound(call))
          /\ EndsDispatched(call) => Len(call.visited) = call.response.evaluated
          /\ ~EndsDispatched(call) => Len(call.visited) = Len(routes)

\* C17: for every table and request the loop of a call ends: it evaluates each
\* entry at most once, in table order, and finishes dispatched, with method not
\* allowed, or with not found, exactly one of the three.
C17_LoopTerminates ==
    /\ [](\A c \in 1..MaxCalls : CallEndsWell(calls[c]))
    /\ \A c \in 1..MaxCalls : (calls[c].pc = "loop") ~> (calls[c].pc = "done")

\* A call that went through a table of two entries and ended with 405.
C17_Witness ==
    \E c \in 1..MaxCalls :
        /\ calls[c].pc = "done"
        /\ calls[c].visited = <<1, 2>>
        /\ EndsMethodNotAllowed(calls[c])
\* A pattern in which Greedy occurs at two positions or more.
MoreThanOneGreedy(path_segments) ==
    \E i, j \in DOMAIN path_segments :
        i # j /\ path_segments[i] = Greedy /\ path_segments[j] = Greedy

\* C14: a collection that contains a signature with more than one Greedy is a
\* fatal error at build time: no table comes out of it, so no table ever holds
\* such a signature and no request is ever dispatched against one.
C14_TwoGreedyIsFatal ==
    /\ (\E i \in DOMAIN registered :
            MoreThanOneGreedy(registered[i].request_spec.path_segments))
          => /\ ~constructed
             /\ routes = <<>>
             /\ ~called
    /\ \A i \in DOMAIN routes : ~MoreThanOneGreedy(routes[i].request_spec.path_segments)
\* A handler under the layers applied so far, the first applied innermost.
RECURSIVE Wrapped(_, _)
Wrapped(ls, route) ==
    IF ls = <<>> THEN route
    ELSE LayerRoute(ls[Len(ls)], Wrapped(SubSeq(ls, 1, Len(ls) - 1), route))

\* Two outcomes that select the same index, or end in the same status.
SameSelection(a, b) ==
    a.kind = b.kind /\ a.status = b.status /\ a.evaluated = b.evaluated

\* C15: Router::layer wraps the handler of every entry in the same layer and
\* leaves the signatures, their number and their order as they were, so every
\* request selects the entry at the same index of the layered router as of the
\* original, or gets the same 404 or 405.
C15_LayerKeepsSelection ==
    LET built == BuildRoutes(registered)
    IN  /\ Len(routes) = Len(built)
        /\ \A i \in 1..Len(built) :
              /\ routes[i].request_spec = built[i].request_spec
              /\ routes[i].route = Wrapped(layers, built[i].route)
        /\ \A request \in CallsRequestPool :
              SameSelection(RouterCall(routes, request), RouterCall(built, request))
        /\ called =>
              /\ SameSelection(response, RouterCall(built, req))
              /\ response.kind = "route" =>
                    response.route = Wrapped(layers, built[response.evaluated].route)

\* A layered router of two entries or more dispatching to its second entry.
C15_Witness ==
    /\ constructed /\ called
    /\ layers # <<>>
    /\ Len(routes) >= 2
    /\ routes[1].request_spec # routes[2].request_spec
    /\ response.kind = "route"
    /\ response.evaluated = 2
\* The first pair registered with the signature of the pair at k.
FirstRegisteredWith(k) ==
    CHOOSE j \in DOMAIN registered :
        /\ registered[j].request_spec = registered[k].request_spec
        /\ \A h \in 1..(j - 1) : registered[h].request_spec # registered[k].request_spec

C18_EmptyRouterNotFound ==
    (constructed /\ registered = <<>>) =>
        /\ routes = <<>>
        /\ \A request \in RequestPool :
              RouterCall(routes, request) = StatusResponse(NOT_FOUND, 0)
        /\ called =>
              /\ response.kind = "status"
              /\ response.status = NOT_FOUND
              /\ response.status # METHOD_NOT_ALLOWED

\* A call answered by a router that was built from no pairs.
C18_Witness ==
    /\ constructed /\ called
    /\ registered = <<>>
    /\ req.method = "POST"
    /\ response.status = NOT_FOUND
\* The response carries an x-amz-id-2 header; the value of its first one.
HasExtendedHeader == \E i \in DOMAIN s3.headers : s3.headers[i][1] = "x-amz-id-2"
ExtendedHeaderValue ==
    s3.headers[CHOOSE i \in DOMAIN s3.headers :
                  /\ s3.headers[i][1] = "x-amz-id-2"
                  /\ \A j \in 1..(i - 1) : s3.headers[j][1] # "x-amz-id-2"][2]
\* A header value every byte of which is visible ASCII.
Readable(header_value) ==
    \A i \in DOMAIN header_value : header_value[i] \in (32..126) \cup {9}

\* The message and the request id are those of the input error.
OtherFieldsKept ==
    /\ s3.result.message = s3.error.message
    /\ s3.result.request_id = s3.error.request_id

\* C19 as stated: the result's extended request id is the value of the
\* response's x-amz-id-2 header when the header is present and None when it is
\* absent, and message and request id are those of the input error.
C19_ExtendedRequestId ==
    s3.parsed =>
        /\ HasExtendedHeader =>
              extended_request_id(s3.result) = Some(ExtendedHeaderValue)
        /\ ~HasExtendedHeader => extended_request_id(s3.result) = None
        /\ OtherFieldsKept

\* C19: the result's extended request id is the value of the response's
\* x-amz-id-2 header when the header is present with a value of visible ASCII;
\* when the header is absent or its value is no such string nothing is added,
\* the result being the input error (with no extended request id if it had
\* none); message, request id and the other extras are those of the input
\* error in every case.
C19_ExtendedRequestIdWhenReadable ==
    s3.parsed =>
        /\ (HasExtendedHeader /\ Readable(ExtendedHeaderValue)) =>
              extended_request_id(s3.result) = Some(ExtendedHeaderValue)
        /\ ~(HasExtendedHeader /\ Readable(ExtendedHeaderValue)) =>
              /\ s3.result = s3.error
              /\ extended_request_id(s3.result) = extended_request_id(s3.error)
              /\ extended_request_id(s3.error) = None =>
                    extended_request_id(s3.result) = None
        /\ OtherFieldsKept
        /\ {pair \in s3.result.extras : pair[1] # EXTENDED_REQUEST_ID}
              = {pair \in s3.error.extras : pair[1] # EXTENDED_REQUEST_ID}

\* A response whose x-amz-id-2 header holds the byte 0xFF, and an error with
\* message and request id that comes back without an extended request id.
C19_Witness ==
    /\ s3.parsed
    /\ HasExtendedHeader
    /\ ~Readable(ExtendedHeaderValue)
    /\ s3.error.message = Some("123")
    /\ s3.error.request_id = Some("456")
    /\ extended_request_id(s3.result) = None
\* A version as one number, for components below 100.
VersionNumber(v) == v[1] * 10000 + v[2] * 100 + v[3]

\* The pinned entries, as written, whose version is at or above the requested.
PinnedAtOrAbove ==
    {i \in DOMAIN revision.written :
        VersionNumber(revision.written[i][1]) >= VersionNumber(revision.sdk_version)}
\* The commit of the smallest of them.
SmallestPinnedCommit ==
    revision.written[CHOOSE i \in PinnedAtOrAbove :
        \A j \in PinnedAtOrAbove :
            VersionNumber(revision.written[i][1]) <= VersionNumber(revision.written[j][1])][2]

\* C20 as stated: the repository is reset to a pinned commit if and only if
\* the requested version is at or below some pinned version, then to the
\* commit of the smallest pinned version at or above it; for a version above
\* every pinned version there is no reset.
C20_ResetIffPinned ==
    (revision.ran /\ Len(revision.sdk_version) = 3) =>
        /\ (revision.reset # NoReset) <=> (PinnedAtOrAbove # {})
        /\ revision.reset # NoReset => revision.reset = SmallestPinnedCommit
        /\ PinnedAtOrAbove = {} => revision.reset = NoReset

\* C20: git reset --hard is run on the smithy-rs repository if and only if the
\* requested version is at or below some pinned version and the repository's
\* root is found, then with the commit of the smallest pinned version at or
\* above the requested one; when the root is not found the function fails
\* without a reset, and for a version above every pinned version there is no
\* reset and the function succeeds.
C20_ResetIffPinnedAndRootFound ==
    (revision.ran /\ Len(revision.sdk_version) = 3) =>
        /\ (revision.reset # NoReset) <=> (PinnedAtOrAbove # {} /\ revision.root_found)
        /\ revision.reset # NoReset => revision.reset = SmallestPinnedCommit
        /\ (PinnedAtOrAbove # {} /\ ~revision.root_found) => revision.result = "Err"
        /\ PinnedAtOrAbove = {} =>
              revision.reset = NoReset /\ revision.result = "Ok"

\* 0.5.9 requested with 1.0.0 written before 0.6.0: reset to the commit of 0.6.0.
C20_Witness ==
    /\ revision.ran
    /\ revision.sdk_version = <<0, 5, 9>>
    /\ Len(revision.written) = 2
    /\ revision.written[1][1] = <<1, 0, 0>>
    /\ revision.written[2][1] = <<0, 6, 0>>
    /\ revision.reset = "d48c234796a16d518ca9e1dda5c7a1da4904318c"
    /\ revision.result = "Ok"
\* run_canary has returned.
CanaryReturned == canary.canary_result # "none"

\* C21: in run_canary the deletion of the Lambda function is attempted exactly
\* when create_lambda_fn returned Ok: after the invocation, whether that
\* succeeded or failed; a failed deletion is the error returned, whatever the
\* invocation gave; and when create_lambda_fn fails, its timeout with the
\* function created included, or an earlier step fails, nothing is deleted.
C21_DeleteIffCreated ==
    /\ canary.deletions <= 1
    /\ canary.deletions = 1 =>
          /\ canary.create_result = "Ok"
          /\ canary.invocations = 1
          /\ canary.invoke_result \in {"Ok", "Err"}
    /\ CanaryReturned =>
          /\ (canary.deletions = 1) <=> (canary.create_result = "Ok")
          /\ canary.invocations = 1 => canary.deletions = 1
          /\ canary.delete_result = "Err" =>
                /\ canary.canary_result = "Err"
                /\ canary.canary_error = "delete_function"
          /\ canary.delete_result = "Ok" =>
                /\ canary.canary_result = canary.invoke_result
                /\ canary.invoke_result = "Err" => canary.canary_error = "invoke"
                /\ canary.invoke_result = "Ok" => canary.canary_value = canary.invoke_time
          /\ canary.create_result # "Ok" =>
                /\ canary.deletions = 0
                /\ canary.invocations = 0
                /\ canary.canary_result = "Err"
          /\ canary.canary_error = "timeout" => canary.exists /\ canary.deletions = 0

\* An invocation that failed, then a deletion that failed too and whose error
\* is the one returned.
C21_Witness ==
    /\ CanaryReturned
    /\ canary.create_result = "Ok"
    /\ canary.invoke_result = "Err"
    /\ canary.deletions = 1
    /\ canary.delete_result = "Err"
    /\ canary.canary_error = "delete_function"
\* create_lambda_fn has returned.
CreateReturned == canary.create_result # "none"

\* C22: create_lambda_fn polls the state of the function, once it has created
\* it, 20 times at most; it makes no poll after one that reported Active and
\* then returns Ok; it returns the timeout error when 20 polls reported other
\* states, and an error at once when a poll fails; it never returns Ok without
\* a poll that reported Active.
C22_PollsAtMostTwenty ==
    /\ canary.polls <= 20
    /\ canary.polls > 0 => canary.exists \/ canary.delete_result = "Ok"
    /\ canary.polls_after_active = 0
    /\ canary.create_result = "Ok" => canary.active_seen /\ canary.polls >= 1
    /\ (CreateReturned /\ canary.active_seen) => canary.create_result = "Ok"
    /\ canary.canary_error = "timeout" =>
          /\ canary.create_result = "Err"
          /\ canary.polls = 20
          /\ canary.attempts = 20
          /\ ~canary.active_seen
    /\ canary.canary_error = "get_function_configuration" =>
          /\ canary.create_result = "Err"
          /\ canary.attempts = canary.polls - 1
          /\ ~canary.active_seen
    /\ (CreateReturned /\ canary.exists /\ canary.create_result = "Err") =>
          canary.canary_error \in {"timeout", "get_function_configuration"}

\* Twenty polls, none of which reported Active, and the timeout returned with
\* the function in existence.
C22_Witness ==
    /\ CreateReturned
    /\ canary.polls = 20
    /\ canary.state = "Failed"
    /\ canary.canary_error = "timeout"
    /\ canary.exists
\* The value sent under a metric name, and whether the name was sent at all.
MetricSent(name) == \E i \in DOMAIN canary.metrics : canary.metrics[i][1] = name
MetricValue(name) ==
    canary.metrics[CHOOSE i \in DOMAIN canary.metrics : canary.metrics[i][1] = name][2]

\* C23: run sends its metrics after run_canary, whether that succeeded or
\* failed: of canary-success and canary-failure exactly one is 1 and the other
\* 0, canary-invoke-time is sent only when run_canary succeeded, and run
\* returns the result of the canary only when the send succeeded, the error of
\* the send otherwise.
C23_MetricsThenResult ==
    /\ canary.emissions <= 1
    /\ canary.emissions = 1 => CanaryReturned
    /\ canary.run_result # "none" => canary.emissions = 1 /\ CanaryReturned
    /\ (CanaryReturned /\ canary.pc = "done") => canary.emissions = 1
    /\ canary.emissions = 1 =>
          /\ MetricSent("canary-success") /\ MetricSent("canary-failure")
          /\ MetricSent("canary-total-time")
          /\ \A i, j \in DOMAIN canary.metrics :
                canary.metrics[i][1] = canary.metrics[j][1] => i = j
          /\ MetricValue("canary-success") \in {0, 1}
          /\ MetricValue("canary-failure") = 1 - MetricValue("canary-success")
          /\ (MetricValue("canary-success") = 1) <=> (canary.canary_result = "Ok")
          /\ MetricSent("canary-invoke-time") <=> (canary.canary_result = "Ok")
          /\ MetricSent("canary-invoke-time") =>
                MetricValue("canary-invoke-time") = canary.invoke_time
          /\ canary.emit_result = "Ok" =>
                /\ canary.run_result = canary.canary_result
                /\ canary.run_error = canary.canary_error
          /\ canary.emit_result = "Err" =>
                /\ canary.run_result = "Err"
                /\ canary.run_error = "put_metric_data"

\* A canary that succeeded, its metrics built with canary-invoke-time, the
\* send failed and run returned that failure.
C23_Witness ==
    /\ canary.pc = "done"
    /\ canary.canary_result = "Ok"
    /\ MetricSent("canary-invoke-time")
    /\ canary.emit_result = "Err"
    /\ canary.run_result = "Err"
====
